---- MODULE Spec2Model ----
(***************************************************************************)
(* A model of Time_Entry/app.py: the Flask view `upload`, which saves two  *)
(* uploaded workbooks, locates the header row of the monthly "missing      *)
(* time" sheet and of the manager list by substring matching, and filters  *)
(* the monthly data rows against the manager list while carrying the       *)
(* current Level forward.                                                  *)
(*                                                                         *)
(* Python strings are TLA+ strings; a character is a string of length 1.   *)
(* Python indices are 0-based; the model's are 1-based, and 0 stands for   *)
(* "not found" (None / StopIteration).                                     *)
(***************************************************************************)
EXTENDS Integers, Sequences, FiniteSets, TLC

(***************************************************************************)
(* Python values held by spreadsheet cells.                                *)
(***************************************************************************)
None == [t |-> "none", s |-> "", n |-> 0]
S(x) == [t |-> "str", s |-> x, n |-> 0]
F(k) == [t |-> "float", s |-> "", n |-> k]
I(k) == [t |-> "int", s |-> "", n |-> k]

\* bool(v): None, '', 0 and 0.0 are falsy.
Truthy(c) ==
    \/ c.t = "str" /\ c.s # ""
    \/ c.t \in {"int", "float"} /\ c.n # 0

\* `v or ''`
OrEmpty(c) == IF Truthy(c) THEN c ELSE S("")

RECURSIVE DigitStr(_)
DigitStr(k) ==
    IF k < 10 THEN SubSeq("0123456789", k + 1, k + 1)
    ELSE DigitStr(k \div 10) \o SubSeq("0123456789", (k % 10) + 1, (k % 10) + 1)

\* str(v) for the values a cell holds (floats of the model are whole numbers).
PyStr(c) ==
    CASE c.t = "str" -> c.s
      [] c.t = "int" -> DigitStr(c.n)
      [] c.t = "float" -> DigitStr(c.n) \o ".0"
      [] OTHER -> "None"

(***************************************************************************)
(* str methods.                                                            *)
(***************************************************************************)
UpperToLower ==
    [c \in {"A","B","C","D","E","F","G","H","I","J","K","L","M",
            "N","O","P","Q","R","S","T","U","V","W","X","Y","Z"} |->
       CASE c = "A" -> "a" [] c = "B" -> "b" [] c = "C" -> "c" [] c = "D" -> "d"
         [] c = "E" -> "e" [] c = "F" -> "f" [] c = "G" -> "g" [] c = "H" -> "h"
         [] c = "I" -> "i" [] c = "J" -> "j" [] c = "K" -> "k" [] c = "L" -> "l"
         [] c = "M" -> "m" [] c = "N" -> "n" [] c = "O" -> "o" [] c = "P" -> "p"
         [] c = "Q" -> "q" [] c = "R" -> "r" [] c = "S" -> "s" [] c = "T" -> "t"
         [] c = "U" -> "u" [] c = "V" -> "v" [] c = "W" -> "w" [] c = "X" -> "x"
         [] c = "Y" -> "y" [] OTHER -> "z"]

RECURSIVE Lower(_)
Lower(s) ==
    IF s = "" THEN ""
    ELSE (IF Head(s) \in DOMAIN UpperToLower THEN UpperToLower[Head(s)] ELSE Head(s))
         \o Lower(Tail(s))

\* The whitespace of the modelled cells is the blank.
IsSpace(c) == c = " "

RECURSIVE LStrip(_)
LStrip(s) == IF s # "" /\ IsSpace(Head(s)) THEN LStrip(Tail(s)) ELSE s

RECURSIVE RStrip(_)
RStrip(s) ==
    IF s # "" /\ IsSpace(SubSeq(s, Len(s), Len(s)))
    THEN RStrip(SubSeq(s, 1, Len(s) - 1))
    ELSE s

Strip(s) == RStrip(LStrip(s))

\* `sub in s`
Contains(sub, s) ==
    \E i \in 1..(Len(s) - Len(sub) + 1) : SubSeq(s, i, i + Len(sub) - 1) = sub

\* Position of the first / last occurrence of character c in s, 0 if none.
RECURSIVE Find(_, _, _)
Find(s, c, i) ==
    IF i > Len(s) THEN 0
    ELSE IF SubSeq(s, i, i) = c THEN i
    ELSE Find(s, c, i + 1)

RECURSIVE RFind(_, _, _)
RFind(s, c, i) ==
    IF i < 1 THEN 0
    ELSE IF SubSeq(s, i, i) = c THEN i
    ELSE RFind(s, c, i - 1)

\* s.split(c, 1): one or two parts, cut at the first c.
Split1(s, c) ==
    LET p == Find(s, c, 1)
    IN  IF p = 0 THEN <<s>>
        ELSE <<SubSeq(s, 1, p - 1), SubSeq(s, p + 1, Len(s))>>

\* s.rsplit(c, 1): one or two parts, cut at the last c.
RSplit1(s, c) ==
    LET p == RFind(s, c, Len(s))
    IN  IF p = 0 THEN <<s>>
        ELSE <<SubSeq(s, 1, p - 1), SubSeq(s, p + 1, Len(s))>>

(***************************************************************************)
(* allowed_file and werkzeug's secure_filename.                            *)
(***************************************************************************)
ALLOWED_EXT == {"xlsb", "xlsx", "xls"}

allowed_file(fname) ==
    /\ Contains(".", fname)
    /\ Lower(RSplit1(fname, ".")[2]) \in ALLOWED_EXT

FilenameChars ==
    DOMAIN UpperToLower \cup
    {"a","b","c","d","e","f","g","h","i","j","k","l","m","n","o","p","q","r",
     "s","t","u","v","w","x","y","z","0","1","2","3","4","5","6","7","8","9",
     "_", ".", "-"}

\* filename.replace(os.sep, " ")
RECURSIVE ReplaceSep(_)
ReplaceSep(s) ==
    IF s = "" THEN ""
    ELSE (IF Head(s) = "/" THEN " " ELSE Head(s)) \o ReplaceSep(Tail(s))

\* "_".join(s.split()) for a string s without leading or trailing blanks.
RECURSIVE JoinWords(_)
JoinWords(s) ==
    IF s = "" THEN ""
    ELSE IF IsSpace(Head(s)) THEN "_" \o JoinWords(LStrip(s))
    ELSE Head(s) \o JoinWords(Tail(s))

\* _filename_ascii_strip_re.sub("", s)
RECURSIVE KeepFilenameChars(_)
KeepFilenameChars(s) ==
    IF s = "" THEN ""
    ELSE (IF Head(s) \in FilenameChars THEN Head(s) ELSE "")
         \o KeepFilenameChars(Tail(s))

\* s.strip("._")
RECURSIVE StripDots(_)
StripDots(s) ==
    IF s # "" /\ Head(s) \in {".", "_"} THEN StripDots(Tail(s))
    ELSE IF s # "" /\ SubSeq(s, Len(s), Len(s)) \in {".", "_"}
         THEN StripDots(SubSeq(s, 1, Len(s) - 1))
    ELSE s

secure_filename(fname) ==
    StripDots(KeepFilenameChars(JoinWords(Strip(ReplaceSep(fname)))))

\* Every upload lands under one name (what dropping the per-file name would do).
UploadPathShared(fname) == "upload"

\* os.path.join(app.config['UPLOAD_FOLDER'], secure_filename(f.filename)),
\* as the name inside the upload folder.
UploadPath(fname) == secure_filename(fname)

(***************************************************************************)
(* Header detection (steps 5 and 6 of upload).                             *)
(***************************************************************************)
HasLevel(v) == Contains("level", Lower(v))
HasEmpName(v) == Contains("emp", Lower(v)) /\ Contains("name", Lower(v))
HasEmail(v) == Contains("email", Lower(v))
HasMissing(v) ==
    /\ Contains("sum", Lower(v))
    /\ Contains("missing", Lower(v))
    /\ Contains("time", Lower(v))

\* (v or '').strip() raises AttributeError when `v or ''` is not a str.
StripRaises(row) == \E j \in 1..Len(row) : OrEmpty(row[j]).t # "str"

\* vals = [(v or '').strip() for v in row], when no cell raises.
RowVals(row) == [j \in 1..Len(row) |-> Strip(OrEmpty(row[j]).s)]

\* A row passes with any one detector (what `or` for `and` would do).
IsHeaderRowAny(vals) ==
    \/ \E j \in 1..Len(vals) : HasLevel(vals[j])
    \/ \E j \in 1..Len(vals) : HasEmpName(vals[j])
    \/ \E j \in 1..Len(vals) : HasEmail(vals[j])
    \/ \E j \in 1..Len(vals) : HasMissing(vals[j])

\* has_level and has_empname and has_email and has_missing
IsHeaderRow(vals) ==
    /\ \E j \in 1..Len(vals) : HasLevel(vals[j])
    /\ \E j \in 1..Len(vals) : HasEmpName(vals[j])
    /\ \E j \in 1..Len(vals) : HasEmail(vals[j])
    /\ \E j \in 1..Len(vals) : HasMissing(vals[j])

\* The for loop over enumerate(all_rows), from row i on.
RECURSIVE DetectHeaderFrom(_, _)
DetectHeaderFrom(rows, i) ==
    IF i > Len(rows) THEN [kind |-> "none", idx |-> 0, headers |-> <<>>]
    ELSE IF StripRaises(rows[i]) THEN [kind |-> "raise", idx |-> 0, headers |-> <<>>]
    ELSE IF IsHeaderRow(RowVals(rows[i]))
         THEN [kind |-> "found", idx |-> i, headers |-> RowVals(rows[i])]
    ELSE DetectHeaderFrom(rows, i + 1)

\* next(i for i, f in enumerate(flags) if f), 0 for StopIteration.
RECURSIVE FirstTrue(_, _)
FirstTrue(flags, i) ==
    IF i > Len(flags) THEN 0
    ELSE IF flags[i] THEN i
    ELSE FirstTrue(flags, i + 1)

LocateColumns(headers) ==
    [level   |-> FirstTrue([j \in 1..Len(headers) |-> HasLevel(headers[j])], 1),
     empinfo |-> FirstTrue([j \in 1..Len(headers) |-> HasEmpName(headers[j])], 1),
     email   |-> FirstTrue([j \in 1..Len(headers) |-> HasEmail(headers[j])], 1),
     missing |-> FirstTrue([j \in 1..Len(headers) |-> HasMissing(headers[j])], 1)]

NoColumns == [level |-> 0, empinfo |-> 0, email |-> 0, missing |-> 0]

(***************************************************************************)
(* Manager list (step 7 of upload).                                        *)
(***************************************************************************)
\* The for loop over enumerate(mgr_rows), from row i on.
RECURSIVE DetectRosterHeaderFrom(_, _)
DetectRosterHeaderFrom(rows, i) ==
    IF i > Len(rows) THEN [kind |-> "none", idx |-> 0, hdr2 |-> <<>>]
    ELSE IF StripRaises(rows[i]) THEN [kind |-> "raise", idx |-> 0, hdr2 |-> <<>>]
    ELSE IF \E j \in 1..Len(rows[i]) : HasEmail(RowVals(rows[i])[j])
         THEN [kind |-> "found", idx |-> i, hdr2 |-> RowVals(rows[i])]
    ELSE DetectRosterHeaderFrom(rows, i + 1)

IdxEmailMgr(hdr2) == FirstTrue([j \in 1..Len(hdr2) |-> HasEmail(hdr2[j])], 1)

IdxNameMgr(hdr2) ==
    FirstTrue([j \in 1..Len(hdr2) |->
                 Contains("name", Lower(hdr2[j])) /\ ~HasEmail(hdr2[j])], 1)

\* { str(r[idx]).strip().lower() for r in mgr_data if r[idx] }
LookupSet(mgr_data, idx) ==
    IF idx = 0 THEN {}
    ELSE { Lower(Strip(PyStr(mgr_data[i][idx]))) :
             i \in { m \in 1..Len(mgr_data) : Truthy(mgr_data[m][idx]) } }

(***************************************************************************)
(* The filter loop body (step 8 of upload).                                *)
(***************************************************************************)
\* lvl_cell is not None and str(lvl_cell).strip()
IsGroupHeader(lvl_cell) == lvl_cell.t # "none" /\ Strip(PyStr(lvl_cell)) # ""

\* str(raw_email).strip().lower() if raw_email else ''
EmailKey(raw_email) ==
    IF Truthy(raw_email) THEN Lower(Strip(PyStr(raw_email))) ELSE ""

\* str(row[idx_empinfo] or '')
EmpInfo(cell) == PyStr(OrEmpty(cell))

\* The name cut at the last '-' (what rsplit for split would do).
NamePartLast(empinfo) ==
    LET parts == RSplit1(empinfo, "-")
    IN  IF Len(parts) > 1 THEN Strip(parts[2]) ELSE Strip(empinfo)

\* parts = empinfo.split('-', 1)
\* name_part = parts[1].strip() if len(parts) > 1 else empinfo.strip()
NamePart(empinfo) ==
    LET parts == Split1(empinfo, "-")
    IN  IF Len(parts) > 1 THEN Strip(parts[2]) ELSE Strip(empinfo)

\* Both keys required (what `and` for `or` would do).
MatchesBoth(ekey, nkey, emails, names) == ekey \in emails /\ nkey \in names

\* email_key in mgr_emails or name_key in mgr_names
Matches(ekey, nkey, emails, names) == ekey \in emails \/ nkey \in names

\* The Level cell assigned on every row (an assignment outside the `if`).
CarriedLevelEveryRow(lvl_cell, cur) == lvl_cell

\* current_level after the row: assigned only in the group-header branch.
CarriedLevel(lvl_cell, cur) == IF IsGroupHeader(lvl_cell) THEN lvl_cell ELSE cur

\* The body without its `continue`: a group-header row falls through to the match.
LoopBodyNoContinue(row, c, cur, emails, names) ==
    LET level == CarriedLevel(row[c.level], cur)
        ekey  == EmailKey(row[c.email])
        name  == NamePart(EmpInfo(row[c.empinfo]))
    IN  [skip |-> FALSE, current_level |-> level,
         email_key |-> ekey, name_part |-> name, name_key |-> Lower(name),
         emit |-> Matches(ekey, Lower(name), emails, names),
         entry |-> [Level |-> level, Name |-> name,
                    Email |-> row[c.email], Missing |-> row[c.missing]]]

\* One iteration of `for row in data`: what it leaves in current_level and in the
\* loop's locals, and the entry it appends (when emit).
LoopBody(row, c, cur, emails, names) ==
    LET level == CarriedLevel(row[c.level], cur)
        ekey  == EmailKey(row[c.email])
        name  == NamePart(EmpInfo(row[c.empinfo]))
    IN  IF IsGroupHeader(row[c.level])
        THEN [skip |-> TRUE, current_level |-> level,
              email_key |-> "", name_part |-> "", name_key |-> "",
              emit |-> FALSE,
              entry |-> [Level |-> None, Name |-> "", Email |-> None, Missing |-> None]]
        ELSE [skip |-> FALSE, current_level |-> level,
              email_key |-> ekey, name_part |-> name, name_key |-> Lower(name),
              emit |-> Matches(ekey, Lower(name), emails, names),
              entry |-> [Level |-> level, Name |-> name,
                         Email |-> row[c.email], Missing |-> row[c.missing]]]

(***************************************************************************)
(* Files and responses.                                                    *)
(***************************************************************************)
\* What a path of the upload folder holds: the format of the file and its sheets.
Absent == [kind |-> "absent", sheets |-> <<>>]
Corrupt == [kind |-> "corrupt", sheets |-> <<>>]
Xlsb(sheets) == [kind |-> "xlsb", sheets |-> sheets]
Xlsx(rows) == [kind |-> "xlsx", sheets |-> <<[name |-> "Sheet1", rows |-> rows]>>]

Response(status, kind, entries) ==
    [status |-> status, kind |-> kind, entries |-> entries]

NoResponse == Response(0, "none", <<>>)

\* next((s for s in sheets if 'missing' in s.lower() and 'time' in s.lower()), None)
SheetIndex(sheets) ==
    FirstTrue([j \in 1..Len(sheets) |->
                 /\ Contains("missing", Lower(sheets[j].name))
                 /\ Contains("time", Lower(sheets[j].name))], 1)

(***************************************************************************)
(* The uploads the model draws its requests from.                          *)
(***************************************************************************)
MaxDataRows == 3

SeqsUpTo(pool, n) == UNION { [1..m -> pool] : m \in 0..n }

\* Rows of a monthly sheet: title rows, header rows, group rows, employee rows.
Title    == <<S("Missing Time by Level"), None, None, None>>
NumTitle == <<S("Report"), F(5), None, None>>
ZeroRow  == <<F(0), None, None, None>>
H1 == <<S("Level"), S("Emp ID - Name"), S("Email ID"), S("Sum of Missing Time")>>
H2 == <<S(" Emp Name / EMAIL "), S("LEVEL"), S("Sum of Missing Time"), None>>
LA == <<S("Team A"), S("1 - Jane"), S("a@x.com"), F(5)>>
D1 == <<None, S("12345 - Jane Doe"), S(" A@X.com "), F(5)>>
D2 == <<S("  "), S("JaneDoe"), None, F(0)>>
D3 == <<None, None, None, None>>
D4 == <<None, S("7 - Bob-Ray"), S("zed@x.com"), None>>

\* The rows down to and including the header row (when there is one).
Heads ==
    { <<>>, <<Title>>, <<NumTitle, H1>>, <<ZeroRow, H1>>,
      <<H1>>, <<H2>>, <<H1, H2>> }

DataPool == {LA, D1, D2, D3, D4}

MonthlySheets == { h \o b : h \in Heads, b \in SeqsUpTo(DataPool, MaxDataRows) }

MonthlyBook(rows) ==
    Xlsb(<<[name |-> "Summary", rows |-> <<>>],
           [name |-> "Missing Time", rows |-> rows]>>)

NoSheetBook ==
    Xlsb(<<[name |-> "Summary", rows |-> <<>>],
           [name |-> "Timesheet", rows |-> <<H1, D1>>]>>)

\* Manager lists.
RosterA ==
    << <<S("Name"), S("Email")>>,
       <<S("Jane Doe"), S("a@x.com")>>,
       <<S("Bob-Ray"), None>> >>
RosterB ==
    << <<S("Managers"), None>>,
       <<S("Email ID"), S("Dept")>>,
       <<S("A@X.COM "), S("Jane Doe")>> >>
RosterC ==
    << <<S("Name"), S("Email")>>,
       <<S("  "), S("  ")>>,
       <<S("JaneDoe"), I(0)>> >>
RosterD ==
    << <<S("Managers"), I(5)>>,
       <<S("Name"), S("Email")>>,
       <<S("Jane Doe"), S("a@x.com")>> >>
RosterE ==
    << <<S("Name"), S("Phone")>>,
       <<S("Jane Doe"), I(5)>> >>

Rosters == {RosterA, RosterB, RosterC, RosterD, RosterE}

Request(method, mname, lname, mfile, lfile) ==
    [method |-> method, monthly_name |-> mname, employee_name |-> lname,
     monthly_file |-> mfile, employee_file |-> lfile]

\* A filename of "" stands for a file field that is missing or unnamed.
Requests ==
    { Request("GET", "", "", Absent, Absent) }
    \cup { Request("POST", n[1], n[2], MonthlyBook(<<H1, D1>>), Xlsx(RosterA)) :
             n \in { <<"", "list.xlsx">>, <<"report.txt", "list.xlsx">>,
                     <<"Monthly Report.XLSB", "">>, <<"Monthly Report.XLSB", "list">>,
                     <<"data.xlsx", "data.xlsx">> } }
    \cup { Request("POST", "Monthly Report.XLSB", "list.xlsx", m, Xlsx(RosterA)) :
             m \in {Corrupt, NoSheetBook} }
    \cup { Request("POST", "Monthly Report.XLSB", "list.xlsx", MonthlyBook(<<H1, D1>>), Corrupt) }
    \cup { Request("POST", "Monthly Report.XLSB", "list.xlsx", MonthlyBook(m), Xlsx(l)) :
             m \in MonthlySheets, l \in Rosters }

\* Two requests in flight: the first fixed, the second with filenames that do or
\* do not sanitize to the first one's.
RaceFirst ==
    Request("POST", "my data.xlsb", "list.xlsx", MonthlyBook(<<H1, LA, D1>>), Xlsx(RosterA))

RaceSecond ==
    { Request("POST", n[1], n[2], MonthlyBook(<<Title, H1, D4, D2>>), Xlsx(RosterC)) :
        n \in { <<"my_data.xlsb", "../list.xlsx">>, <<"my_data.xlsb", "other.xlsx">>,
                <<"other.xlsb", "other.xlsx">> } }
    \cup { Request("POST", "other.xlsb", "list.xlsx", MonthlyBook(<<H2, D3>>), Xlsx(RosterE)),
           Request("POST", "other.xlsb", "other.xlsx", MonthlyBook(<<NumTitle, H1>>), Xlsx(RosterD)),
           Request("POST", "other.xlsb", "", NoSheetBook, Corrupt),
           Request("GET", "", "", Absent, Absent) }

Paths ==
    { UploadPath(n) :
        n \in {"Monthly Report.XLSB", "list.xlsx", "data.xlsx", "my data.xlsb",
               "my_data.xlsb", "../list.xlsx", "other.xlsx", "other.xlsb"} }

(***************************************************************************)
(* State: the upload folder, and per request its position in upload() and  *)
(* the locals of upload().                                                 *)
(***************************************************************************)
VARIABLES
    req,            \* request.method, request.files
    pc,             \* the request's position in upload()
    disk,           \* the upload folder: path -> file
    all_rows, header_idx, headers, data, cols,
    mgr_rows, hdr2, mgr_data, mgr_emails, mgr_names,
    row_i,          \* rows of `data` the filter loop has iterated over
    current_level, email_key, name_part, name_key, results,
    rowOf,          \* history: for each entry of results, the index in data of its row
    response        \* what upload() returned

monthlyVars == <<all_rows, header_idx, headers, data, cols>>
rosterVars == <<mgr_rows, hdr2, mgr_data, mgr_emails, mgr_names>>
loopVars == <<row_i, current_level, email_key, name_part, name_key, results, rowOf>>
vars == <<req, pc, disk, monthlyVars, rosterVars, loopVars, response>>

InitFor(requests) ==
    /\ req = requests
    /\ pc = [r \in DOMAIN requests |-> "start"]
    /\ disk = [p \in Paths |-> Absent]
    /\ all_rows = [r \in DOMAIN requests |-> <<>>]
    /\ header_idx = [r \in DOMAIN requests |-> 0]
    /\ headers = [r \in DOMAIN requests |-> <<>>]
    /\ data = [r \in DOMAIN requests |-> <<>>]
    /\ cols = [r \in DOMAIN requests |-> NoColumns]
    /\ mgr_rows = [r \in DOMAIN requests |-> <<>>]
    /\ hdr2 = [r \in DOMAIN requests |-> <<>>]
    /\ mgr_data = [r \in DOMAIN requests |-> <<>>]
    /\ mgr_emails = [r \in DOMAIN requests |-> {}]
    /\ mgr_names = [r \in DOMAIN requests |-> {}]
    /\ row_i = [r \in DOMAIN requests |-> 0]
    /\ current_level = [r \in DOMAIN requests |-> None]
    /\ email_key = [r \in DOMAIN requests |-> ""]
    /\ name_part = [r \in DOMAIN requests |-> ""]
    /\ name_key = [r \in DOMAIN requests |-> ""]
    /\ results = [r \in DOMAIN requests |-> <<>>]
    /\ rowOf = [r \in DOMAIN requests |-> <<>>]
    /\ response = [r \in DOMAIN requests |-> NoResponse]

Init == \E q \in Requests : InitFor([r \in {1} |-> q])

InitRace == \E q \in RaceSecond : InitFor([r \in {1, 2} |-> IF r = 1 THEN RaceFirst ELSE q])

\* upload() returns.
Return(r, resp) ==
    /\ pc' = [pc EXCEPT ![r] = "done"]
    /\ response' = [response EXCEPT ![r] = resp]

Goto(r, label) ==
    /\ pc' = [pc EXCEPT ![r] = label]
    /\ UNCHANGED response

(***************************************************************************)
(* upload(), one action per stage.  expand_all_outlines returns at once    *)
(* where pywin32 is missing (win32com = None), so it is no step here.      *)
(***************************************************************************)
\* Lines 52-58 and 186-187: the method and the two file fields.
Validate(r) ==
    /\ pc[r] = "start"
    /\ IF req[r].method # "POST"
       THEN Return(r, Response(200, "UploadForm", <<>>))
       ELSE IF ~( /\ req[r].monthly_name # ""
                  /\ allowed_file(req[r].monthly_name)
                  /\ req[r].employee_name # ""
                  /\ allowed_file(req[r].employee_name) )
            THEN Return(r, Response(400, "InvalidUpload", <<>>))
            ELSE Goto(r, "save_monthly")
    /\ UNCHANGED <<req, disk, monthlyVars, rosterVars, loopVars>>

\* Line 63: mf.save(path_monthly)
SaveMonthly(r) ==
    /\ pc[r] = "save_monthly"
    /\ disk' = [disk EXCEPT ![UploadPath(req[r].monthly_name)] = req[r].monthly_file]
    /\ Goto(r, "save_list")
    /\ UNCHANGED <<req, monthlyVars, rosterVars, loopVars>>

\* Line 64: lf.save(path_list)
SaveList(r) ==
    /\ pc[r] = "save_list"
    /\ disk' = [disk EXCEPT ![UploadPath(req[r].employee_name)] = req[r].employee_file]
    /\ Goto(r, "read_monthly")
    /\ UNCHANGED <<req, monthlyVars, rosterVars, loopVars>>

\* Lines 69-82: open_xlsb(path_monthly) reads what the path holds now.
ReadMonthly(r) ==
    /\ pc[r] = "read_monthly"
    /\ LET f == disk[UploadPath(req[r].monthly_name)]
           k == SheetIndex(f.sheets)
       IN  IF f.kind # "xlsb"
           THEN Return(r, Response(500, "ReadError", <<>>)) /\ UNCHANGED all_rows
           ELSE IF k = 0
                THEN Return(r, Response(400, "SheetNotFound", <<>>)) /\ UNCHANGED all_rows
                ELSE /\ all_rows' = [all_rows EXCEPT ![r] = f.sheets[k].rows]
                     /\ Goto(r, "detect_header")
    /\ UNCHANGED <<req, disk, header_idx, headers, data, cols, rosterVars, loopVars>>

\* Lines 84-102: the header row, and the rows below it.
DetectHeader(r) ==
    /\ pc[r] = "detect_header"
    /\ LET d == DetectHeaderFrom(all_rows[r], 1)
       IN  CASE d.kind = "raise" ->
                  /\ Return(r, Response(500, "UnhandledException", <<>>))
                  /\ UNCHANGED <<header_idx, headers, data>>
             [] d.kind = "none" ->
                  /\ Return(r, Response(400, "HeaderNotFound", <<>>))
                  /\ UNCHANGED <<header_idx, headers, data>>
             [] OTHER ->
                  /\ header_idx' = [header_idx EXCEPT ![r] = d.idx]
                  /\ headers' = [headers EXCEPT ![r] = d.headers]
                  /\ data' = [data EXCEPT ![r] =
                                SubSeq(all_rows[r], d.idx + 1, Len(all_rows[r]))]
                  /\ Goto(r, "locate_columns")
    /\ UNCHANGED <<req, disk, all_rows, cols, rosterVars, loopVars>>

\* Lines 104-114: the four columns, or StopIteration.
LocateCols(r) ==
    /\ pc[r] = "locate_columns"
    /\ LET c == LocateColumns(headers[r])
       IN  IF 0 \in {c.level, c.empinfo, c.email, c.missing}
           THEN Return(r, Response(400, "ColumnNotFound", <<>>)) /\ UNCHANGED cols
           ELSE cols' = [cols EXCEPT ![r] = c] /\ Goto(r, "read_list")
    /\ UNCHANGED <<req, disk, all_rows, header_idx, headers, data, rosterVars, loopVars>>

\* Lines 116-122: openpyxl.load_workbook(path_list) reads what the path holds now.
ReadList(r) ==
    /\ pc[r] = "read_list"
    /\ LET f == disk[UploadPath(req[r].employee_name)]
       IN  IF f.kind # "xlsx"
           THEN Return(r, Response(500, "ReadError", <<>>)) /\ UNCHANGED mgr_rows
           ELSE /\ mgr_rows' = [mgr_rows EXCEPT ![r] = f.sheets[1].rows]
                /\ Goto(r, "roster_header")
    /\ UNCHANGED <<req, disk, monthlyVars, hdr2, mgr_data, mgr_emails, mgr_names, loopVars>>

\* Lines 124-156: the manager list's header row, its columns, the two lookup sets.
BuildRoster(r) ==
    /\ pc[r] = "roster_header"
    /\ LET d == DetectRosterHeaderFrom(mgr_rows[r], 1)
           below == SubSeq(mgr_rows[r], d.idx + 1, Len(mgr_rows[r]))
       IN  CASE d.kind = "raise" ->
                  /\ Return(r, Response(500, "UnhandledException", <<>>))
                  /\ UNCHANGED <<hdr2, mgr_data, mgr_emails, mgr_names>>
             [] d.kind = "none" ->
                  /\ Return(r, Response(400, "RosterHeaderNotFound", <<>>))
                  /\ UNCHANGED <<hdr2, mgr_data, mgr_emails, mgr_names>>
             [] OTHER ->
                  /\ hdr2' = [hdr2 EXCEPT ![r] = d.hdr2]
                  /\ mgr_data' = [mgr_data EXCEPT ![r] = below]
                  /\ mgr_emails' = [mgr_emails EXCEPT ![r] =
                                      LookupSet(below, IdxEmailMgr(d.hdr2))]
                  /\ mgr_names' = [mgr_names EXCEPT ![r] =
                                     LookupSet(below, IdxNameMgr(d.hdr2))]
                  /\ Goto(r, "filter")
    /\ UNCHANGED <<req, disk, monthlyVars, mgr_rows, loopVars>>

\* Lines 158-182: one iteration of `for row in data`.
FilterRow(r) ==
    /\ pc[r] = "filter"
    /\ row_i[r] < Len(data[r])
    /\ LET i == row_i[r] + 1
           b == LoopBody(data[r][i], cols[r], current_level[r],
                         mgr_emails[r], mgr_names[r])
       IN  /\ row_i' = [row_i EXCEPT ![r] = i]
           /\ current_level' = [current_level EXCEPT ![r] = b.current_level]
           /\ IF b.skip
              THEN UNCHANGED <<email_key, name_part, name_key>>
              ELSE /\ email_key' = [email_key EXCEPT ![r] = b.email_key]
                   /\ name_part' = [name_part EXCEPT ![r] = b.name_part]
                   /\ name_key' = [name_key EXCEPT ![r] = b.name_key]
           /\ IF b.emit
              THEN /\ results' = [results EXCEPT ![r] = Append(@, b.entry)]
                   /\ rowOf' = [rowOf EXCEPT ![r] = Append(@, i)]
              ELSE UNCHANGED <<results, rowOf>>
    /\ UNCHANGED <<req, pc, disk, monthlyVars, rosterVars, response>>

\* Line 184: render_template('result.html', entries=results)
Render(r) ==
    /\ pc[r] = "filter"
    /\ row_i[r] = Len(data[r])
    /\ Return(r, Response(200, "Results", results[r]))
    /\ UNCHANGED <<req, disk, monthlyVars, rosterVars, loopVars>>

\* The request handler of one request.
upload(r) ==
        \/ Validate(r)
        \/ SaveMonthly(r)
        \/ SaveList(r)
        \/ ReadMonthly(r)
        \/ DetectHeader(r)
        \/ LocateCols(r)
        \/ ReadList(r)
        \/ BuildRoster(r)
        \/ FilterRow(r)
        \/ Render(r)

\* One request at a time.
Next == upload(1)

Spec == Init /\ [][Next]_vars

\* Two requests served by two threads of the server.
NextRace == \E r \in {1, 2} : upload(r)

SpecRace == InitRace /\ [][NextRace]_vars

(***************************************************************************)
(* upload() run alone on one request, as a function of the request: the    *)
(* response a request gets when no other request touches the upload folder.*)
(***************************************************************************)
RECURSIVE FilterFrom(_, _, _, _, _, _)
FilterFrom(d, i, c, cur, emails, names) ==
    IF i > Len(d) THEN <<>>
    ELSE LET b == LoopBody(d[i], c, cur, emails, names)
         IN  (IF b.emit THEN <<b.entry>> ELSE <<>>)
             \o FilterFrom(d, i + 1, c, b.current_level, emails, names)

\* Steps 4 to 8 on the file m found at path_monthly and the file l found at path_list.
HandleFiles(m, l) ==
    IF m.kind # "xlsb" THEN Response(500, "ReadError", <<>>)
    ELSE IF SheetIndex(m.sheets) = 0 THEN Response(400, "SheetNotFound", <<>>)
    ELSE LET rows == m.sheets[SheetIndex(m.sheets)].rows
             d == DetectHeaderFrom(rows, 1)
             c == LocateColumns(d.headers)
             h == DetectRosterHeaderFrom(l.sheets[1].rows, 1)
             below == SubSeq(l.sheets[1].rows, h.idx + 1, Len(l.sheets[1].rows))
         IN  IF d.kind = "raise" THEN Response(500, "UnhandledException", <<>>)
             ELSE IF d.kind = "none" THEN Response(400, "HeaderNotFound", <<>>)
             ELSE IF 0 \in {c.level, c.empinfo, c.email, c.missing}
                  THEN Response(400, "ColumnNotFound", <<>>)
             ELSE IF l.kind # "xlsx" THEN Response(500, "ReadError", <<>>)
             ELSE IF h.kind = "raise" THEN Response(500, "UnhandledException", <<>>)
             ELSE IF h.kind = "none" THEN Response(400, "RosterHeaderNotFound", <<>>)
             ELSE Response(200, "Results",
                           FilterFrom(SubSeq(rows, d.idx + 1, Len(rows)), 1, c, None,
                                      LookupSet(below, IdxEmailMgr(h.hdr2)),
                                      LookupSet(below, IdxNameMgr(h.hdr2))))

Handle(q) ==
    IF q.method # "POST" THEN Response(200, "UploadForm", <<>>)
    ELSE IF ~( /\ q.monthly_name # "" /\ allowed_file(q.monthly_name)
               /\ q.employee_name # "" /\ allowed_file(q.employee_name) )
         THEN Response(400, "InvalidUpload", <<>>)
    ELSE HandleFiles(IF UploadPath(q.monthly_name) = UploadPath(q.employee_name)
                     THEN q.employee_file ELSE q.monthly_file,
                     q.employee_file)

(***************************************************************************)
(* Vocabulary of the properties.                                           *)
(***************************************************************************)
Reqs == DOMAIN pc

\* The request is in, or has finished, the filter loop.
Filtering(r) ==
    \/ pc[r] = "filter"
    \/ pc[r] = "done" /\ response[r].kind = "Results"

\* The rows of data that produced a Result Entry.
Emitted(r) == { rowOf[r][j] : j \in 1..Len(rowOf[r]) }

MinOf(set) == CHOOSE m \in set : \A n \in set : m <= n
MaxOf(set) == CHOOSE m \in set : \A n \in set : n <= m

\* An empty cell: nothing, the empty string, or zero.
EmptyCell(c) == c \in {None, S(""), F(0), I(0)}

\* The normalized email of a cell: stringified, trimmed, lowercased; an empty
\* (or zero) cell gives the empty key.
NormEmail(c) == IF EmptyCell(c) THEN "" ELSE Lower(Strip(PyStr(c)))

\* The Level cell is non-empty after trimming.
NonBlankLevel(c) == c # None /\ Strip(PyStr(c)) # ""

\* The name derived from an EmployeeInfo string: the trimmed text after the first
\* '-', or the whole trimmed string when it has no '-'.
Hyphens(s) == { i \in 1..Len(s) : SubSeq(s, i, i) = "-" }
DerivedName(s) ==
    IF Hyphens(s) = {} THEN Strip(s)
    ELSE Strip(SubSeq(s, MinOf(Hyphens(s)) + 1, Len(s)))

\* The string an EmployeeInfo cell stands for (an empty cell: the empty string).
InfoText(c) == IF EmptyCell(c) THEN "" ELSE PyStr(c)

\* Row i of r's data matches the roster by email or by name.
RowMatches(r, i) ==
    \/ NormEmail(data[r][i][cols[r].email]) \in mgr_emails[r]
    \/ Lower(DerivedName(InfoText(data[r][i][cols[r].empinfo]))) \in mgr_names[r]

\* The raw Level cell of the last group-header row among the first i data rows.
LastLevel(r, i) ==
    LET groups == { m \in 1..i : NonBlankLevel(data[r][m][cols[r].level]) }
    IN  IF groups = {} THEN None ELSE data[r][MaxOf(groups)][cols[r].level]

(***************************************************************************)
(* C1                                                                      *)
(***************************************************************************)
\* C1 as stated: every data row the loop has passed, group-header rows included, has
\* a Result Entry exactly when its normalized email is in the roster email set or
\* its derived, lowercased name is in the roster name set.
C1_EveryRowEmittedIffMatch ==
    \A r \in Reqs :
        Filtering(r) =>
            \A i \in 1..row_i[r] : (i \in Emitted(r)) <=> RowMatches(r, i)

\* C1 amended: every data row with a blank Level cell that the loop has passed has
\* a Result Entry exactly when its normalized email is in the roster email set or
\* its derived, lowercased name is in the roster name set; either one suffices.
C1_BlankLevelRowEmittedIffMatch ==
    \A r \in Reqs :
        Filtering(r) =>
            \A i \in 1..row_i[r] :
                ~NonBlankLevel(data[r][i][cols[r].level]) =>
                    ((i \in Emitted(r)) <=> RowMatches(r, i))

\* A row emitted on its name alone (its email is not in the email set), beside a
\* blank-Level row that matched nothing and was not emitted.
C1_Witness ==
    \E r \in Reqs :
        /\ Filtering(r)
        /\ \E i \in Emitted(r) :
              /\ NormEmail(data[r][i][cols[r].email]) \notin mgr_emails[r]
              /\ Lower(DerivedName(InfoText(data[r][i][cols[r].empinfo]))) \in mgr_names[r]
        /\ \E i \in 1..row_i[r] :
              /\ ~NonBlankLevel(data[r][i][cols[r].level])
              /\ i \notin Emitted(r)

(***************************************************************************)
(* C2                                                                      *)
(***************************************************************************)
\* C2: no Result Entry comes from a data row whose Level cell is non-empty after
\* trimming, whatever its other cells hold, and the Result Entries are never more
\* than the data rows with a blank Level cell.
C2_GroupHeaderRowsEmitNothing ==
    \A r \in Reqs :
        Filtering(r) =>
            /\ \A i \in Emitted(r) : ~NonBlankLevel(data[r][i][cols[r].level])
            /\ Len(results[r]) = Len(rowOf[r])
            /\ Len(results[r]) <=
                 Cardinality({ i \in 1..Len(data[r]) :
                                 ~NonBlankLevel(data[r][i][cols[r].level]) })
            /\ pc[r] = "done" => response[r].entries = results[r]

\* A group-header row whose email is in the roster email set has been passed.
C2_Witness ==
    \E r \in Reqs :
        /\ Filtering(r)
        /\ \E i \in 1..row_i[r] :
              /\ NonBlankLevel(data[r][i][cols[r].level])
              /\ NormEmail(data[r][i][cols[r].email]) \in mgr_emails[r]
              /\ NormEmail(data[r][i][cols[r].email]) # ""

(***************************************************************************)
(* C3                                                                      *)
(***************************************************************************)
\* C3: the carried Level is the raw Level cell of the last group-header row passed
\* (None before the first), every Result Entry carries the Level of the last
\* group-header row before its own row, and the entries are in row order.
C3_LevelCarriedForward ==
    \A r \in Reqs :
        Filtering(r) =>
            /\ current_level[r] = LastLevel(r, row_i[r])
            /\ \A j \in 1..Len(results[r]) :
                  /\ rowOf[r][j] \in 1..row_i[r]
                  /\ results[r][j].Level = LastLevel(r, rowOf[r][j])
                  /\ results[r][j].Email = data[r][rowOf[r][j]][cols[r].email]
                  /\ results[r][j].Missing = data[r][rowOf[r][j]][cols[r].missing]
            /\ \A j \in 1..(Len(rowOf[r]) - 1) : rowOf[r][j] < rowOf[r][j + 1]

\* An entry emitted after two group-header rows with different Level cells, and an
\* entry emitted before any group-header row.
C3_Witness ==
    \E r \in Reqs :
        /\ Filtering(r)
        /\ \E j \in 1..Len(results[r]) :
              \E m, n \in 1..rowOf[r][j] :
                 /\ m < n
                 /\ NonBlankLevel(data[r][m][cols[r].level])
                 /\ NonBlankLevel(data[r][n][cols[r].level])
                 /\ data[r][m][cols[r].level] # data[r][n][cols[r].level]
                 /\ results[r][j].Level = data[r][n][cols[r].level]

\* An entry emitted before any group-header row: its Level is None.
C3_WitnessNone ==
    \E r \in Reqs :
        /\ Filtering(r)
        /\ \E j \in 1..Len(results[r]) : results[r][j].Level = None

(***************************************************************************)
(* C4                                                                      *)
(***************************************************************************)
\* The lowercased, trimmed string form of a cell (an empty cell: the empty string).
CellText(c) == IF EmptyCell(c) THEN "" ELSE Lower(Strip(PyStr(c)))

\* The rows in which every one of the four detectors is met by some cell.
QualifyingRows(rows) ==
    { i \in 1..Len(rows) :
        /\ \E j \in 1..Len(rows[i]) : Contains("level", CellText(rows[i][j]))
        /\ \E j \in 1..Len(rows[i]) :
              Contains("emp", CellText(rows[i][j])) /\ Contains("name", CellText(rows[i][j]))
        /\ \E j \in 1..Len(rows[i]) : Contains("email", CellText(rows[i][j]))
        /\ \E j \in 1..Len(rows[i]) :
              /\ Contains("sum", CellText(rows[i][j]))
              /\ Contains("missing", CellText(rows[i][j]))
              /\ Contains("time", CellText(rows[i][j])) }

\* C4: whatever the cells hold (strings, numbers, nothing), the header step ends
\* with the smallest row index meeting all four detectors, or, when no row meets
\* them, with HeaderNotFound (HTTP 400).
C4_HeaderLocatorFirstRowOr400 ==
    [][ \A r \in Reqs :
          (pc[r] = "detect_header" /\ pc'[r] # "detect_header") =>
              IF QualifyingRows(all_rows[r]) = {}
              THEN pc'[r] = "done" /\ response'[r] = Response(400, "HeaderNotFound", <<>>)
              ELSE /\ pc'[r] = "locate_columns"
                   /\ header_idx'[r] = MinOf(QualifyingRows(all_rows[r])) ]_vars

(***************************************************************************)
(* C5                                                                      *)
(***************************************************************************)
\* C5: every finished POST has one of the outcomes of the taxonomy, with its
\* status, and carries Result Entries only in a results view.
C5_OutcomeInTaxonomy ==
    \A r \in Reqs :
        (pc[r] = "done" /\ req[r].method = "POST") =>
            /\ \/ /\ response[r].status = 400
                  /\ response[r].kind \in {"InvalidUpload", "SheetNotFound", "HeaderNotFound",
                                           "ColumnNotFound", "RosterHeaderNotFound"}
               \/ response[r].status = 500 /\ response[r].kind = "ReadError"
               \/ response[r].status = 200 /\ response[r].kind = "Results"
            /\ response[r].kind # "Results" => response[r].entries = <<>>

(***************************************************************************)
(* C6                                                                      *)
(***************************************************************************)
\* The rows of the manager list with a cell whose string form contains 'email'.
RosterHeaderRows(rows) ==
    { i \in 1..Len(rows) :
        \E j \in 1..Len(rows[i]) : Contains("email", CellText(rows[i][j])) }

\* C6: whatever the cells hold, the roster step takes the first row with an
\* 'email' cell as the header and the rows below it as the roster data, or, when no
\* row has such a cell, ends with RosterHeaderNotFound (HTTP 400).
C6_RosterHeaderFirstEmailRowOr400 ==
    [][ \A r \in Reqs :
          (pc[r] = "roster_header" /\ pc'[r] # "roster_header") =>
              IF RosterHeaderRows(mgr_rows[r]) = {}
              THEN /\ pc'[r] = "done"
                   /\ response'[r] = Response(400, "RosterHeaderNotFound", <<>>)
              ELSE /\ pc'[r] = "filter"
                   /\ mgr_data'[r] =
                        SubSeq(mgr_rows[r], MinOf(RosterHeaderRows(mgr_rows[r])) + 1,
                               Len(mgr_rows[r])) ]_vars

(***************************************************************************)
(* C7                                                                      *)
(***************************************************************************)
\* A cell that is absent or holds the empty string.
AbsentOrEmpty(c) == c \in {None, S("")}

\* C7: the empty key is in neither roster set, and no data row whose Email and
\* EmployeeInfo cells are both absent or empty has a Result Entry.
C7_EmptyRowNeverEmitted ==
    \A r \in Reqs :
        Filtering(r) =>
            /\ "" \notin mgr_emails[r] \cup mgr_names[r]
            /\ \A i \in Emitted(r) :
                  ~( /\ AbsentOrEmpty(data[r][i][cols[r].email])
                     /\ AbsentOrEmpty(data[r][i][cols[r].empinfo]) )

(***************************************************************************)
(* C8                                                                      *)
(***************************************************************************)
\* The last data row the loop passed that was no group-header row (0: none yet).
LastEmployeeRow(r) ==
    LET rows == { i \in 1..row_i[r] : ~NonBlankLevel(data[r][i][cols[r].level]) }
    IN  IF rows = {} THEN 0 ELSE MaxOf(rows)

\* C8: name_part is the trimmed text after the first '-' of the EmployeeInfo string
\* (the whole trimmed string when it has no '-'), name_key is name_part lowercased,
\* and an emitted Name is the name_part of its row, in its original case.
C8_NameCutAtFirstHyphen ==
    \A r \in Reqs :
        Filtering(r) =>
            /\ LastEmployeeRow(r) # 0 =>
                  LET info == data[r][LastEmployeeRow(r)][cols[r].empinfo]
                  IN  /\ name_part[r] = DerivedName(InfoText(info))
                      /\ name_key[r] = Lower(name_part[r])
                      /\ info = S("12345 - Jane Doe") => name_part[r] = "Jane Doe"
                      /\ info = S("JaneDoe") => name_part[r] = "JaneDoe"
                      /\ info = S("7 - Bob-Ray") => name_part[r] = "Bob-Ray"
            /\ \A j \in 1..Len(results[r]) :
                  results[r][j].Name =
                      DerivedName(InfoText(data[r][rowOf[r][j]][cols[r].empinfo]))

\* An entry whose EmployeeInfo has two '-' was emitted: its Name keeps the second
\* '-' and its capitals, and it matched on the lowercased key.
C8_Witness ==
    \E r \in Reqs :
        /\ Filtering(r)
        /\ \E j \in 1..Len(results[r]) :
              /\ Cardinality(Hyphens(PyStr(data[r][rowOf[r][j]][cols[r].empinfo]))) = 2
              /\ results[r][j].Name = "Bob-Ray"
              /\ "bob-ray" \in mgr_names[r]
              /\ rowOf[r][j] = row_i[r]
              /\ name_key[r] = "bob-ray"

(***************************************************************************)
(* C9                                                                      *)
(***************************************************************************)
\* The names under which a request saves its files.
SavedNames(q) ==
    IF Handle(q).kind \in {"UploadForm", "InvalidUpload"} THEN {}
    ELSE {secure_filename(q.monthly_name), secure_filename(q.employee_name)}

\* No other request saves a file under a name this request saves under.
NoCollision(r) ==
    \A o \in Reqs \ {r} : SavedNames(req[o]) \cap SavedNames(req[r]) = {}

\* C9: a request none of whose sanitized filenames is used by another request
\* reads back its own two files, and its response is the one it gets when run alone.
C9_NoCollisionOwnFilesOnly ==
    \A r \in Reqs :
        NoCollision(r) =>
            /\ pc[r] = "done" => response[r] = Handle(req[r])
            /\ pc[r] = "detect_header" =>
                  \E k \in 1..Len(req[r].monthly_file.sheets) :
                      all_rows[r] = req[r].monthly_file.sheets[k].rows
            /\ pc[r] = "roster_header" => mgr_rows[r] = req[r].employee_file.sheets[1].rows

\* Two requests whose filenames sanitize to the same names: the first one read the
\* sheet the second one saved, and its response is the one computed from the
\* second one's two files, not from its own.
C9_Witness ==
    /\ Reqs = {1, 2}
    /\ secure_filename(req[1].monthly_name) = secure_filename(req[2].monthly_name)
    /\ req[1].monthly_name # req[2].monthly_name
    /\ pc[1] = "done"
    /\ all_rows[1] = req[2].monthly_file.sheets[2].rows
    /\ response[1] = HandleFiles(req[2].monthly_file, req[2].employee_file)
    /\ response[1] # Handle(req[1])

(***************************************************************************)
(* C10                                                                     *)
(***************************************************************************)
\* The request has resolved its columns.
ColumnsResolved(r) ==
    \/ pc[r] \in {"read_list", "roster_header", "filter"}
    \/ pc[r] = "done" /\ cols[r] # NoColumns

\* C10: once the header row is found no response is ColumnNotFound, and each field
\* resolves to the smallest column of the header row meeting its detector.
C10_ColumnsAlwaysResolve ==
    \A r \in Reqs :
        /\ response[r].kind # "ColumnNotFound"
        /\ pc[r] = "locate_columns" => header_idx[r] # 0
        /\ ColumnsResolved(r) =>
              LET hdr == all_rows[r][header_idx[r]]
                  lvl == { j \in 1..Len(hdr) : Contains("level", CellText(hdr[j])) }
                  emp == { j \in 1..Len(hdr) :
                             Contains("emp", CellText(hdr[j])) /\ Contains("name", CellText(hdr[j])) }
                  eml == { j \in 1..Len(hdr) : Contains("email", CellText(hdr[j])) }
                  mis == { j \in 1..Len(hdr) :
                             /\ Contains("sum", CellText(hdr[j]))
                             /\ Contains("missing", CellText(hdr[j]))
                             /\ Contains("time", CellText(hdr[j])) }
              IN  /\ lvl # {} /\ cols[r].level = MinOf(lvl)
                  /\ emp # {} /\ cols[r].empinfo = MinOf(emp)
                  /\ eml # {} /\ cols[r].email = MinOf(eml)
                  /\ mis # {} /\ cols[r].missing = MinOf(mis)

\* A header row one of whose cells meets two detectors: EmployeeInfo and Email
\* resolve to the same column.
C10_Witness ==
    \E r \in Reqs :
        /\ ColumnsResolved(r)
        /\ cols[r].empinfo = cols[r].email
        /\ header_idx[r] # 0

====
